---- MODULE Spec2Model ----
(***************************************************************************)
(* Model of the myKiwoom dashboard: the browser client script              *)
(* (static/js/app.js and its later revision, unnamed/part_000), the        *)
(* Session Gate it talks to, and the server's aggregator and push relay.   *)
(*                                                                         *)
(* One browser page runs one of the two revisions of the script; "variant" *)
(* says which.  A request is a record in the bag "inflight": it is "sent"  *)
(* until the server has served it and "served" until the client's          *)
(* continuation after the awaits has run.  Each step of the client is one  *)
(* synchronous run of JavaScript (a click handler up to its first await, a *)
(* continuation after an await, a timer callback, a socket event handler). *)
(* "last" records the effects of the step just taken that are not state:   *)
(* the alert shown, a call of refreshDashboard, a value returned or an     *)
(* exception thrown to the caller, a response computed by the server; and, *)
(* in "was", the value a flag had before the step where a claim reads it.  *)
(*                                                                         *)
(* Spec follows the page and the Session Gate; RelaySpec the aggregator    *)
(* and the push relay; DeskSpec the order route and the Broker API Client; *)
(* TimerSpec the page against a clock, for the period of the refresh       *)
(* interval; AnimSpec the login of part_000 with the progress bar and the  *)
(* animation intervals of its modal.                                       *)
(***************************************************************************)
EXTENDS Integers, FiniteSets, Sequences, Bags, TLC

VARIABLES
    variant,          \* which revision of the script the page runs
    refreshDefined,   \* typeof refreshDashboard === 'function' on this page
    page,             \* "loaded" | "gone"
    isAuthenticated,  \* let isAuthenticated
    authBtn,          \* #auth-btn: "template" | "login" | "logout"
    connectionStatus, \* #connection-status: "template" | "connected" | "disconnected" | "loading"
    socketConnected,  \* the socket.io connection of this page is up
    refreshInterval,  \* let refreshInterval: "null" | "armed"
    spinner,          \* #loading-spinner is visible
    modal,            \* #loginProgressModal: "none" | "showing" | "showing_success" |
                      \*   "shown" | "success" | "hiding"
    inflight,         \* bag of requests in flight
    timers,           \* bag of pending setTimeout callbacks
    sessionAuth,      \* Session.authenticated on the server
    last,             \* what the last step did
    \* ---- server side: aggregator and push relay ----
    chan,             \* channel id -> "fresh" | "connected" | "closed"
    received,         \* channel id -> set of payloads its 'update' handler ran on
    bcast,            \* the broadcast in progress, or NoBcast
    agg,              \* the aggregator's refresh in progress, or AggIdle
    published,        \* set of AccountViews handed to the relay
    tickNo,           \* number of aggregator ticks started
    \* ---- server side: HTTP Facade order routes and Broker API Client ----
    token,            \* the Session's access token: "valid" | "expired"
    desk,             \* the protected call being served, or DeskIdle
    callNo,           \* number of protected calls served so far
    \* ---- the page's clock ----
    now,              \* milliseconds since initializeApp() ran
    due,              \* when the interval of setupAutoRefresh fires next
    \* ---- the login progress modal ----
    anims,            \* the intervals startLoginProgressAnimation has set, in order
    bar,              \* width in % of #loginProgressBar of the modal in the document
    elements          \* number of #loginProgressModal elements in the document

clientVars == <<variant, refreshDefined, page, isAuthenticated, authBtn,
                connectionStatus, socketConnected, refreshInterval, spinner,
                modal, inflight, timers>>
relayVars == <<chan, received, bcast, agg, published, tickNo>>
deskVars == <<token, desk, callNo>>
timeVars == <<now, due>>
animVars == <<anims, bar>>
domVars == <<elements>>
sideVars == <<deskVars, timeVars, animVars, domVars>>
vars == <<clientVars, sessionAuth, last, relayVars, sideVars>>

\* ---- bounds ----
\* Requests in flight plus pending timeouts above which the user and the
\* page's other scripts start no further operation.
MaxPending == 2

\* Browser channels that ever connect to the relay.
MaxChannels == 3
\* Ticks of the aggregator's timer.
MaxTicks == 2

Variants == {"app_js", "part_000"}

\* An AccountView names, for each of its four parts, the tick whose Broker
\* response it holds (0: none yet).
View(a, h, o, f) == [account |-> a, holdings |-> h, orders |-> o, fills |-> f]
NoView == View(0, 0, 0, 0)

\* ---- the step record ----
Ev(op, data, was, alert, refresh, escaped, broker) ==
    [op |-> op, caller |-> "none", data |-> data, was |-> was, alert |-> alert,
     refresh |-> refresh, escaped |-> escaped, broker |-> broker]

\* A step of the server: the route that ran, the client function whose
\* request it served, the response, and whether the Broker API was called.
SrvEv(route, caller, data, broker) ==
    [op |-> route, caller |-> caller, data |-> data, was |-> FALSE,
     alert |-> "none", refresh |-> FALSE, escaped |-> FALSE, broker |-> broker]

\* A step with no effect beyond the state: nothing alerted, refreshed,
\* returned or thrown.
Quiet == Ev("none", "none", FALSE, "none", FALSE, FALSE, FALSE)

\* ---- requests ----
Req(op, url) == [op |-> op, url |-> url, stage |-> "sent", data |-> "none"]

Add(bag, x) == bag (+) SetToBag({x})
Del(bag, x) == bag (-) SetToBag({x})

Load == BagCardinality(inflight) + BagCardinality(timers)

Alive == page = "loaded"

\* ---- DOM helpers ----
\* updateAuthUI(authenticated): the auth button and, with it, the
\* connection-status element.
UpdateAuthUI(authenticated) ==
    [authBtn |-> IF authenticated THEN "logout" ELSE "login",
     connectionStatus |-> IF authenticated THEN "connected" ELSE "disconnected"]

\* updateConnectionStatus(connected)
UpdateConnectionStatus(connected) ==
    IF connected THEN "connected" ELSE "disconnected"

\* clearDashboard(): '#connection-status' is the first of elementsToClear;
\* its content becomes the "loading" placeholder.
ClearDashboard == "loading"

\* refreshDashboard is called only where the page defines it.
CallsRefresh == refreshDefined

\* Mutant: checkAuthStatus asks the login route.
CheckAuthStatusUrl_Login == "/api/auth/login"

\* fetch('/api/auth/status') in checkAuthStatus
CheckAuthStatusUrl == "/api/auth/status"

\* The requests initializeApp has in flight when it returns:
\* checkServerStatus() and checkAuthStatus() have each sent theirs.
InitRequests ==
    SetToBag({Req("checkServerStatus", "/api/server/status"),
              Req("checkAuthStatus", CheckAuthStatusUrl)})

\* ---- the server's aggregator and relay at start ----
Channels == 1..MaxChannels

NoBcast == [phase |-> "none", payload |-> NoView, snap |-> {}, todo |-> {}, failed |-> {}]
AggIdle == [tick |-> 0, done |-> 0, view |-> NoView]

RelayIdle ==
    /\ chan = [c \in Channels |-> "fresh"]
    /\ received = [c \in Channels |-> {}]
    /\ bcast = NoBcast
    /\ agg = AggIdle
    /\ published = {}
    /\ tickNo = 0

\* README.md: data is refreshed every 30 seconds.
ReadmeIntervalMs == 30000

\* Mutant: the interval has the period README.md names.
RefreshIntervalMs_Readme == ReadmeIntervalMs

\* ---- setupAutoRefresh: setInterval(..., 60000) ----
RefreshIntervalMs == 60000

\* The timer is armed when initializeApp() runs, at time 0.
ClockAtStart ==
    /\ now = 0
    /\ due = RefreshIntervalMs

\* ---- the server's order routes and Broker API Client at start ----
NoOrder == [kind |-> "none"]
DeskIdle == [phase |-> "idle", req |-> NoOrder, expired |-> FALSE, submits |-> 0,
             posts |-> 0, refreshes |-> 0, trace |-> <<>>, result |-> "none"]

DeskAtStart ==
    /\ token = "valid"
    /\ desk = DeskIdle
    /\ callNo = 0

\* No login progress modal has been shown yet.
NoAnimation ==
    /\ anims = <<>>
    /\ bar = 0

\* The document as the template delivers it: no #loginProgressModal.
NoDialog == elements = 0

SideIdle == DeskAtStart /\ ClockAtStart /\ NoAnimation /\ NoDialog

\* ---- the state after DOMContentLoaded -> initializeApp() ----
Init ==
    /\ variant \in Variants
    /\ refreshDefined \in BOOLEAN
    /\ page = "loaded"
    /\ isAuthenticated = FALSE
    /\ authBtn = "template"
    /\ connectionStatus = "template"
    /\ socketConnected = FALSE
    /\ refreshInterval = "armed"
    /\ spinner = FALSE
    /\ modal = "none"
    /\ inflight = InitRequests
    /\ timers = EmptyBag
    /\ sessionAuth \in BOOLEAN
    /\ last = Quiet
    /\ RelayIdle
    /\ SideIdle

\* ---- checkAuthStatus ----

\* catch (error): console.error, showAlert(..., 'danger'); nothing rethrown.
CheckAuthStatusCatch == [alert |-> "danger", escaped |-> FALSE]

\* The continuation of checkAuthStatus after its two awaits.
\* net: "ok" (the body parsed), "neterr" (fetch rejected), "parseerr"
\* (response.json() rejected).
HandleCheckAuthStatus(r, net) ==
    /\ Alive
    /\ r.op = "checkAuthStatus"
    /\ net \in {"ok", "parseerr"} => r.stage = "served"
    /\ inflight' = Del(inflight, r)
    /\ IF net = "ok"
       THEN LET a == (r.data = "auth_true")
                ui == UpdateAuthUI(a)
            IN /\ isAuthenticated' = a
               /\ authBtn' = ui.authBtn
               /\ connectionStatus' = ui.connectionStatus
               /\ last' = Ev("checkAuthStatus", r.data, FALSE, "none",
                             a /\ CallsRefresh, FALSE, FALSE)
       ELSE /\ UNCHANGED <<isAuthenticated, authBtn, connectionStatus>>
            /\ last' = Ev("checkAuthStatus", net, FALSE,
                          CheckAuthStatusCatch.alert, FALSE,
                          CheckAuthStatusCatch.escaped, FALSE)
    /\ UNCHANGED <<variant, refreshDefined, page, socketConnected,
                   refreshInterval, spinner, modal, timers, sessionAuth, relayVars, sideVars>>

\* ---- checkServerStatus ----
\* catch (error): console.error only.
CheckServerStatusCatch == [alert |-> "none", escaped |-> FALSE]

Outcomes == {"success", "failure", "neterr", "parseerr"}
IsError(data) == data \in {"neterr", "parseerr", "httperr"}
\* What a handler that only logs leaves to be seen: whether it threw.
Seen(data) == IF IsError(data) THEN "error" ELSE "none"

\* data: what the body parsed to ("success" | "failure"), or the error.
\* success: currentServerInfo is set and shown (read nowhere else);
\* failure: nothing.
HandleCheckServerStatus(r, data) ==
    /\ Alive
    /\ r.op = "checkServerStatus"
    /\ inflight' = Del(inflight, r)
    /\ last' = Ev("checkServerStatus", Seen(data), FALSE,
                  IF IsError(data) THEN CheckServerStatusCatch.alert ELSE "none",
                  FALSE,
                  IsError(data) /\ CheckServerStatusCatch.escaped, FALSE)
    /\ UNCHANGED <<variant, refreshDefined, page, isAuthenticated, authBtn,
                   connectionStatus, socketConnected, refreshInterval, spinner,
                   modal, timers, sessionAuth, relayVars, sideVars>>

\* ---- login ----
\* login() up to its first await: showLoading(true), in part_000
\* showLoginProgressModal() (which removes an existing modal and inserts
\* a new one, leaving it in state m), then the fetch.
LoginStarts(m) ==
    /\ Alive
    /\ authBtn \in {"template", "login"}
    /\ Load < MaxPending
    /\ spinner' = TRUE
    /\ modal' = IF variant = "part_000" THEN m ELSE modal
    /\ inflight' = Add(inflight, Req("login", "/api/auth/login"))
    /\ last' = Quiet
    /\ UNCHANGED <<variant, refreshDefined, page, isAuthenticated, authBtn,
                   connectionStatus, socketConnected, refreshInterval, timers,
                   sessionAuth, relayVars>>

\* login() on a page where the show transition of the modal ('.modal.fade')
\* is over before anything else runs.
LoginClicked == LoginStarts("shown")

\* login() on a page whose progress animation is not followed.
Login ==
    /\ LoginClicked
    /\ UNCHANGED sideVars

\* hideLoginProgressModal(): bootstrapModal.hide() starts the hide
\* transition of a modal that is shown, and the element is removed once
\* 'hidden.bs.modal' fires.  Bootstrap 5 ignores hide() on a modal whose
\* show or hide transition is running; no element, nothing happens.
HideLoginProgressModal(m) == IF m \in {"shown", "success"} THEN "hiding" ELSE m

\* updateLoginProgress(message, 'success'): the message and the bar of the
\* element in the document are written; the element's transition goes on.
UpdateLoginProgressSuccess(m) ==
    CASE m = "shown" -> "success"
      [] m = "showing" -> "showing_success"
      [] OTHER -> m

\* Mutant: the success branch forgets the flag.
LoginSuccessAuth_Stale == isAuthenticated

\* if (data.success) { isAuthenticated = true; updateAuthUI(true); ... }
LoginSuccessAuth == TRUE

\* Mutant: the failure branch marks the session authenticated.
LoginFailure_SetsAuth == [isAuthenticated |-> TRUE, alert |-> "danger"]

\* else { hideLoginProgressModal(); showAlert(data.message, 'danger') }:
\* isAuthenticated is not assigned.
LoginFailure == [isAuthenticated |-> isAuthenticated, alert |-> "danger"]

\* Mutant: login's catch rethrows, as apiRequest's does.
LoginCatch_Rethrow == [isAuthenticated |-> isAuthenticated, alert |-> "none",
                       escaped |-> TRUE]

\* catch (error): console.error, hideLoginProgressModal(),
\* showAlert(..., 'danger'); nothing rethrown.
LoginCatch == [isAuthenticated |-> isAuthenticated, alert |-> "danger",
               escaped |-> FALSE]

\* The timeout a successful login sets: app.js refreshes after 1 s;
\* part_000 closes the modal, alerts and refreshes after 2 s.
LoginTimer == IF variant = "part_000" THEN "loginDone" ELSE "loginRefresh"

\* The continuation of login() after its awaits, with its finally.
LoginContinues(r, net) ==
    /\ Alive
    /\ r.op = "login"
    /\ net \in {"ok", "parseerr"} => r.stage = "served"
    /\ inflight' = Del(inflight, r)
    /\ spinner' = FALSE
    /\ IF net = "ok" /\ r.data = "success"
       THEN LET ui == UpdateAuthUI(LoginSuccessAuth)
            IN /\ isAuthenticated' = LoginSuccessAuth
               /\ authBtn' = ui.authBtn
               /\ connectionStatus' = ui.connectionStatus
               /\ modal' = IF variant = "part_000"
                           THEN UpdateLoginProgressSuccess(modal) ELSE modal
               /\ timers' = Add(timers, LoginTimer)
               /\ last' = Ev("login:success", r.data, isAuthenticated,
                             IF variant = "part_000" THEN "none" ELSE "success",
                             FALSE, FALSE, FALSE)
       ELSE /\ UNCHANGED <<authBtn, connectionStatus, timers>>
            /\ modal' = IF variant = "part_000"
                        THEN HideLoginProgressModal(modal) ELSE modal
            /\ IF net = "ok"
               THEN /\ isAuthenticated' = LoginFailure.isAuthenticated
                    /\ last' = Ev("login:failure", r.data, isAuthenticated,
                                  LoginFailure.alert, FALSE, FALSE, FALSE)
               ELSE /\ isAuthenticated' = LoginCatch.isAuthenticated
                    /\ last' = Ev("login:error", net, isAuthenticated,
                                  LoginCatch.alert, FALSE, LoginCatch.escaped, FALSE)
    /\ UNCHANGED <<variant, refreshDefined, page, socketConnected,
                   refreshInterval, sessionAuth, relayVars>>

\* The continuation, the animation not followed.
HandleLogin(r, net) ==
    /\ LoginContinues(r, net)
    /\ UNCHANGED sideVars

\* The callback of the timeout set by a successful login.
LoginTimerRuns(t) ==
    /\ Alive
    /\ t \in {"loginRefresh", "loginDone"}
    /\ BagIn(t, timers)
    /\ timers' = Del(timers, t)
    /\ modal' = IF t = "loginDone" THEN HideLoginProgressModal(modal) ELSE modal
    /\ last' = Ev("login:timer", "none", FALSE,
                  IF t = "loginDone" THEN "success" ELSE "none",
                  CallsRefresh, FALSE, FALSE)
    /\ UNCHANGED <<variant, refreshDefined, page, isAuthenticated, authBtn,
                   connectionStatus, socketConnected, refreshInterval, spinner,
                   inflight, sessionAuth, relayVars>>

\* The callback, the animation not followed.
LoginTimerFires(t) ==
    /\ LoginTimerRuns(t)
    /\ UNCHANGED sideVars

\* 'hidden.bs.modal': the hidden modal's element is removed.
ModalRemoved ==
    /\ Alive
    /\ modal = "hiding"
    /\ modal' = "none"
    /\ last' = Quiet
    /\ UNCHANGED <<variant, refreshDefined, page, isAuthenticated, authBtn,
                   connectionStatus, socketConnected, refreshInterval, spinner,
                   inflight, timers, sessionAuth, relayVars>>

\* The listener, the animation not followed.
ModalHidden ==
    /\ ModalRemoved
    /\ UNCHANGED sideVars

\* ---- logout ----
\* logout() when the user declines confirm(): return inside try, and the
\* finally still runs showLoading(false).
LogoutDeclined ==
    /\ Alive
    /\ authBtn = "logout"
    /\ spinner' = FALSE
    /\ last' = Quiet
    /\ UNCHANGED <<variant, refreshDefined, page, isAuthenticated, authBtn,
                   connectionStatus, socketConnected, refreshInterval, modal,
                   inflight, timers, sessionAuth, relayVars, sideVars>>

\* logout() confirmed, up to its first await: showLoading(true), the fetch.
Logout ==
    /\ Alive
    /\ authBtn = "logout"
    /\ Load < MaxPending
    /\ spinner' = TRUE
    /\ inflight' = Add(inflight, Req("logout", "/api/auth/logout"))
    /\ last' = Quiet
    /\ UNCHANGED <<variant, refreshDefined, page, isAuthenticated, authBtn,
                   connectionStatus, socketConnected, refreshInterval, modal,
                   timers, sessionAuth, relayVars, sideVars>>

\* Mutant: the success branch leaves the flag as it was.
LogoutSuccessAuth_Stale == isAuthenticated

\* if (data.success) { isAuthenticated = false; updateAuthUI(false); ... }
LogoutSuccessAuth == FALSE

\* catch (error): console.error, showAlert(..., 'danger'); nothing rethrown.
LogoutCatch == [alert |-> "danger", escaped |-> FALSE]

\* The timeout a successful logout sets: app.js reloads the page after
\* 1 s; part_000 runs checkAuthStatus() after 0.5 s.
LogoutTimer == IF variant = "part_000" THEN "logoutRecheck" ELSE "logoutReload"

\* The continuation of logout() after its awaits, with its finally.
HandleLogout(r, net) ==
    /\ Alive
    /\ r.op = "logout"
    /\ net \in {"ok", "parseerr"} => r.stage = "served"
    /\ inflight' = Del(inflight, r)
    /\ spinner' = FALSE
    /\ IF net = "ok" /\ r.data = "success"
       THEN LET ui == UpdateAuthUI(LogoutSuccessAuth)
            IN /\ isAuthenticated' = LogoutSuccessAuth
               /\ authBtn' = ui.authBtn
               \* part_000 calls clearDashboard() after updateAuthUI(false)
               /\ connectionStatus' = IF variant = "part_000"
                                      THEN ClearDashboard
                                      ELSE ui.connectionStatus
               /\ timers' = Add(timers, LogoutTimer)
               /\ last' = Ev("logout:success", r.data, isAuthenticated, "info",
                             FALSE, FALSE, FALSE)
       ELSE /\ UNCHANGED <<isAuthenticated, authBtn, connectionStatus, timers>>
            /\ IF net = "ok"
               THEN last' = Ev("logout:failure", r.data, isAuthenticated, "danger",
                               FALSE, FALSE, FALSE)
               ELSE last' = Ev("logout:error", net, isAuthenticated,
                               LogoutCatch.alert, FALSE, LogoutCatch.escaped, FALSE)
    /\ UNCHANGED <<variant, refreshDefined, page, socketConnected,
                   refreshInterval, modal, sessionAuth, relayVars, sideVars>>

\* part_000: the timeout of a successful logout calls checkAuthStatus(),
\* which sends its request.
LogoutRecheckFires ==
    /\ Alive
    /\ BagIn("logoutRecheck", timers)
    /\ timers' = Del(timers, "logoutRecheck")
    /\ inflight' = Add(inflight, Req("checkAuthStatus", CheckAuthStatusUrl))
    /\ last' = Quiet
    /\ UNCHANGED <<variant, refreshDefined, page, isAuthenticated, authBtn,
                   connectionStatus, socketConnected, refreshInterval, spinner,
                   modal, sessionAuth, relayVars, sideVars>>

\* ---- setupAutoRefresh ----
\* Mutant: the callback refreshes without looking at isAuthenticated.
TickRefreshes_Always == CallsRefresh

\* if (isAuthenticated && typeof refreshDashboard === 'function')
TickRefreshes == isAuthenticated /\ CallsRefresh

\* The interval callback runs.
IntervalCallback ==
    /\ Alive
    /\ refreshInterval = "armed"
    /\ last' = Ev("tick", "none", FALSE, "none", TickRefreshes, FALSE, FALSE)
    /\ UNCHANGED <<clientVars, sessionAuth, relayVars>>

\* One firing of the interval, at whatever time.
Tick ==
    /\ IntervalCallback
    /\ UNCHANGED sideVars

\* ---- apiRequest ----
\* Called by the page's other scripts (window.apiRequest).
ApiRequest ==
    /\ Alive
    /\ Load < MaxPending
    /\ inflight' = Add(inflight, Req("apiRequest", "/api/protected"))
    /\ last' = Quiet
    /\ UNCHANGED <<variant, refreshDefined, page, isAuthenticated, authBtn,
                   connectionStatus, socketConnected, refreshInterval, spinner,
                   modal, timers, sessionAuth, relayVars, sideVars>>

\* Mutant: the authentication failure is not detected.
ForcedLogout_Never(data) == FALSE

\* if (data.success === false && data.authenticated === false)
ForcedLogout(data) == data = "forced"

\* catch (error) { console.error(...); throw error; }
ApiRequestCatch == [alert |-> "none", escaped |-> TRUE]

\* The continuation of apiRequest after its awaits.  net: "ok", "neterr",
\* "httperr" (!response.ok throws) or "parseerr".  With "ok" the data is
\* returned to the caller at the end of the step.
HandleApiRequest(r, net) ==
    /\ Alive
    /\ r.op = "apiRequest"
    /\ net # "neterr" => r.stage = "served"
    /\ inflight' = Del(inflight, r)
    /\ IF net = "ok"
       THEN IF ForcedLogout(r.data)
            THEN LET ui == UpdateAuthUI(FALSE)
                 IN /\ isAuthenticated' = FALSE
                    /\ authBtn' = ui.authBtn
                    /\ connectionStatus' = ui.connectionStatus
                    /\ last' = Ev("apiRequest:returned", r.data, isAuthenticated,
                                  "warning", FALSE, FALSE, FALSE)
            ELSE /\ UNCHANGED <<isAuthenticated, authBtn, connectionStatus>>
                 /\ last' = Ev("apiRequest:returned", r.data, FALSE,
                               "none", FALSE, FALSE, FALSE)
       ELSE /\ UNCHANGED <<isAuthenticated, authBtn, connectionStatus>>
            /\ last' = Ev("apiRequest:error", Seen(net), FALSE,
                          ApiRequestCatch.alert, FALSE, ApiRequestCatch.escaped, FALSE)
    /\ UNCHANGED <<variant, refreshDefined, page, socketConnected,
                   refreshInterval, spinner, modal, timers, sessionAuth, relayVars, sideVars>>

\* ---- searchStockInfo ----
\* The 'input' listener of #stock-code, once the value has six characters.
SearchStockInfo ==
    /\ Alive
    /\ Load < MaxPending
    /\ inflight' = Add(inflight, Req("searchStockInfo", "/api/quote/stock"))
    /\ last' = Quiet
    /\ UNCHANGED <<variant, refreshDefined, page, isAuthenticated, authBtn,
                   connectionStatus, socketConnected, refreshInterval, spinner,
                   modal, timers, sessionAuth, relayVars, sideVars>>

\* catch (error): console.error only.
SearchStockInfoCatch == [alert |-> "none", escaped |-> FALSE]

\* The continuation of searchStockInfo after its awaits.  data: what the
\* body parsed to ("success" | "failure"), or the error.
\* success: displayStockInfo logs the data; failure: nothing.
HandleSearchStockInfo(r, data) ==
    /\ Alive
    /\ r.op = "searchStockInfo"
    /\ inflight' = Del(inflight, r)
    /\ last' = Ev("searchStockInfo", Seen(data), FALSE,
                  IF IsError(data) THEN SearchStockInfoCatch.alert ELSE "none",
                  FALSE,
                  IsError(data) /\ SearchStockInfoCatch.escaped, FALSE)
    /\ UNCHANGED <<variant, refreshDefined, page, isAuthenticated, authBtn,
                   connectionStatus, socketConnected, refreshInterval, spinner,
                   modal, timers, sessionAuth, relayVars, sideVars>>

\* ---- connectWebSocket: the socket's event handlers ----
SocketConnect ==
    /\ Alive
    /\ ~socketConnected
    /\ socketConnected' = TRUE
    /\ connectionStatus' = UpdateConnectionStatus(TRUE)
    /\ last' = Quiet
    /\ UNCHANGED <<variant, refreshDefined, page, isAuthenticated, authBtn,
                   refreshInterval, spinner, modal, inflight, timers,
                   sessionAuth, relayVars, sideVars>>

SocketDisconnect ==
    /\ Alive
    /\ socketConnected
    /\ socketConnected' = FALSE
    /\ connectionStatus' = UpdateConnectionStatus(FALSE)
    /\ last' = Quiet
    /\ UNCHANGED <<variant, refreshDefined, page, isAuthenticated, authBtn,
                   refreshInterval, spinner, modal, inflight, timers,
                   sessionAuth, relayVars, sideVars>>

\* ---- selectServer ----
\* Confirmed: showLoading(true), a logout request whose response is not
\* read, and a timeout that navigates to the server-selection page.
SelectServer ==
    /\ Alive
    /\ Load + 1 < MaxPending
    /\ spinner' = TRUE
    /\ inflight' = Add(inflight, Req("selectServer", "/api/auth/logout"))
    /\ timers' = Add(timers, "selectServerNav")
    /\ last' = Quiet
    /\ UNCHANGED <<variant, refreshDefined, page, isAuthenticated, authBtn,
                   connectionStatus, socketConnected, refreshInterval, modal,
                   sessionAuth, relayVars, sideVars>>

\* ---- page unload ----
\* Requests the server has not yet served outlive the page; their
\* responses are read by nobody.
Orphans ==
    SetToBag({[r EXCEPT !.op = "orphan"] :
                r \in {q \in BagToSet(inflight) :
                          /\ q.stage = "sent"
                          /\ q.url \in {"/api/auth/login", "/api/auth/logout"}}})

\* Mutant: the listener leaves the interval alone.
ClearInterval_Kept(handle) == handle

\* if (refreshInterval) clearInterval(refreshInterval)
ClearInterval(handle) == IF handle = "armed" THEN "cleared" ELSE handle

\* The 'beforeunload' listener: clearInterval(refreshInterval) and
\* socket.disconnect(), which runs the 'disconnect' handler of a connected
\* socket.  Then the document, its timers and its continuations are gone.
Unload ==
    /\ Alive
    /\ page' = "gone"
    /\ refreshInterval' = ClearInterval(refreshInterval)
    /\ socketConnected' = FALSE
    /\ connectionStatus' = IF socketConnected THEN UpdateConnectionStatus(FALSE)
                           ELSE connectionStatus
    /\ timers' = EmptyBag
    /\ inflight' = Orphans
    /\ last' = Quiet
    /\ UNCHANGED <<variant, refreshDefined, isAuthenticated, authBtn, spinner,
                   modal, sessionAuth, relayVars, sideVars>>

\* The user closes the page or follows a link.
Navigate == Unload

\* app.js: the timeout of a successful logout calls location.reload().
LogoutReloadFires ==
    /\ BagIn("logoutReload", timers)
    /\ Unload

\* selectServer's timeout sets window.location.href.
SelectServerNavFires ==
    /\ BagIn("selectServerNav", timers)
    /\ Unload

\* A page of the dashboard is loaded (again): the script's globals are
\* initialised and initializeApp() runs.
PageLoad ==
    /\ page = "gone"
    /\ page' = "loaded"
    /\ refreshDefined' \in BOOLEAN
    /\ isAuthenticated' = FALSE
    /\ authBtn' = "template"
    /\ connectionStatus' = "template"
    /\ socketConnected' = FALSE
    /\ refreshInterval' = "armed"
    /\ spinner' = FALSE
    /\ modal' = "none"
    /\ inflight' = inflight (+) InitRequests
    /\ timers' = EmptyBag
    /\ last' = Quiet
    /\ UNCHANGED <<variant, sessionAuth, relayVars, sideVars>>

\* ---- the server: Session Gate and HTTP Facade ----
\* A response reaches the continuation of the function that sent the
\* request; nobody reads the response to selectServer's request or to a
\* request of a page that is gone.
Answer(r, data) ==
    IF r.op \in {"orphan", "selectServer"}
    THEN Del(inflight, r)
    ELSE Add(Del(inflight, r), [r EXCEPT !.stage = "served", !.data = data])

\* status(): reads the Session.
GateStatus == IF sessionAuth THEN "auth_true" ELSE "auth_false"

\* requireAuth: the structured answer to an unauthenticated request.
RequireAuth == sessionAuth

ServeStatus(r) ==
    /\ r.stage = "sent"
    /\ r.url = "/api/auth/status"
    /\ inflight' = Answer(r, GateStatus)
    /\ last' = [SrvEv("serve:status", r.op, GateStatus, FALSE)
                   EXCEPT !.was = sessionAuth]
    /\ UNCHANGED <<variant, refreshDefined, page, isAuthenticated, authBtn,
                   connectionStatus, socketConnected, refreshInterval, spinner,
                   modal, timers, sessionAuth, relayVars, sideVars>>

\* login(): the Broker's OAuth flow; on success the Session is
\* authenticated, on failure it is unauthenticated.
ServeLogin(r, ok) ==
    /\ r.stage = "sent"
    /\ r.url = "/api/auth/login"
    /\ sessionAuth' = ok
    /\ inflight' = Answer(r, IF ok THEN "success" ELSE "failure")
    /\ last' = SrvEv("serve:login", r.op, IF ok THEN "success" ELSE "failure", TRUE)
    /\ UNCHANGED <<variant, refreshDefined, page, isAuthenticated, authBtn,
                   connectionStatus, socketConnected, refreshInterval, spinner,
                   modal, timers, relayVars, sideVars>>

\* logout(): clears the Session unconditionally.
GateLogout == FALSE

ServeLogout(r, ok) ==
    /\ r.stage = "sent"
    /\ r.url = "/api/auth/logout"
    /\ sessionAuth' = GateLogout
    /\ inflight' = Answer(r, IF ok THEN "success" ELSE "failure")
    /\ last' = SrvEv("serve:logout", r.op, IF ok THEN "success" ELSE "failure", FALSE)
    /\ UNCHANGED <<variant, refreshDefined, page, isAuthenticated, authBtn,
                   connectionStatus, socketConnected, refreshInterval, spinner,
                   modal, timers, relayVars, sideVars>>

\* A protected route: requireAuth first; then the Broker call, which may
\* succeed, fail (UpstreamError) or fail with an AuthError.  The Session
\* is cleared only by logout.
ServeProtected(r, data) ==
    /\ r.stage = "sent"
    /\ r.url = "/api/protected"
    /\ data \in {"success", "failure", "forced"}
    /\ ~RequireAuth => data = "forced"
    /\ inflight' = Answer(r, data)
    /\ last' = SrvEv("serve:protected", r.op, data, RequireAuth)
    /\ UNCHANGED <<variant, refreshDefined, page, isAuthenticated, authBtn,
                   connectionStatus, socketConnected, refreshInterval, spinner,
                   modal, timers, sessionAuth, relayVars, sideVars>>

\* ---- the browser page and the Session Gate ----
Next ==
    \/ \E r \in BagToSet(inflight), net \in {"ok", "neterr", "parseerr"} :
          HandleCheckAuthStatus(r, net)
    \/ \E r \in BagToSet(inflight), data \in Outcomes : HandleCheckServerStatus(r, data)
    \/ Login
    \/ \E r \in BagToSet(inflight), net \in {"ok", "neterr", "parseerr"} :
          HandleLogin(r, net)
    \/ \E t \in {"loginRefresh", "loginDone"} : LoginTimerFires(t)
    \/ ModalHidden
    \/ LogoutDeclined
    \/ Logout
    \/ \E r \in BagToSet(inflight), net \in {"ok", "neterr", "parseerr"} :
          HandleLogout(r, net)
    \/ LogoutRecheckFires
    \/ LogoutReloadFires
    \/ Tick
    \/ ApiRequest
    \/ \E r \in BagToSet(inflight), net \in {"ok", "neterr", "httperr", "parseerr"} :
          HandleApiRequest(r, net)
    \/ SearchStockInfo
    \/ \E r \in BagToSet(inflight), data \in Outcomes : HandleSearchStockInfo(r, data)
    \/ SocketConnect
    \/ SocketDisconnect
    \/ SelectServer
    \/ SelectServerNavFires
    \/ Navigate
    \/ PageLoad
    \/ \E r \in BagToSet(inflight) : ServeStatus(r)
    \/ \E r \in BagToSet(inflight), ok \in BOOLEAN : ServeLogin(r, ok)
    \/ \E r \in BagToSet(inflight), ok \in BOOLEAN : ServeLogout(r, ok)
    \/ \E r \in BagToSet(inflight), data \in {"success", "failure", "forced"} :
          ServeProtected(r, data)

Spec == Init /\ [][Next]_vars

\* ---- the server's Dashboard Data Aggregator ----
Parts == <<"account", "holdings", "orders", "fills">>

\* A view all of whose parts come from one tick.
Complete(v) ==
    /\ v.account > 0
    /\ v.holdings = v.account
    /\ v.orders = v.account
    /\ v.fills = v.account

Connected == {c \in Channels : chan[c] = "connected"}

\* The timer of the aggregator: it runs while a channel is connected and
\* the Session is authenticated, one refresh at a time.
AggTick ==
    /\ agg = AggIdle
    /\ tickNo < MaxTicks
    /\ Connected # {}
    /\ sessionAuth
    /\ tickNo' = tickNo + 1
    /\ agg' = [tick |-> tickNo + 1, done |-> 0, view |-> NoView]
    /\ last' = Quiet
    /\ UNCHANGED <<clientVars, sideVars, sessionAuth, chan, received, bcast, published>>

\* Mutant: a refresh that fails hands over what it has so far.
PublishOnFailure_Partial == TRUE

\* refresh(): if any sub-call fails, the whole refresh fails and no view
\* is published.
PublishOnFailure == FALSE

\* The next of the four sub-calls of refresh(), in order: it succeeds and
\* its part is taken into the view being assembled, or it fails and the
\* refresh is over.
AggSubCall(ok) ==
    /\ agg.tick # 0
    /\ agg.done < Len(Parts)
    /\ IF ok
       THEN /\ agg' = [agg EXCEPT !.done = @ + 1,
                                  !.view[Parts[agg.done + 1]] = agg.tick]
            /\ last' = Quiet
            /\ UNCHANGED published
       ELSE /\ agg' = AggIdle
            /\ published' = IF PublishOnFailure THEN published \cup {agg.view}
                            ELSE published
            /\ last' = Ev("agg:failed", IF agg.done > 0 THEN "partway" ELSE "first",
                          FALSE, "none", FALSE, FALSE, TRUE)
    /\ UNCHANGED <<clientVars, sideVars, sessionAuth, chan, received, bcast, tickNo>>

\* ---- the server's Push Relay ----
\* refresh() completed: the view is emitted to the relay, whose broadcast
\* takes a copy of the set of connected channels and then sends to each.
AggPublish ==
    /\ agg.tick # 0
    /\ agg.done = Len(Parts)
    /\ bcast.phase # "sending"
    /\ published' = published \cup {agg.view}
    /\ bcast' = [phase |-> IF Connected = {} THEN "done" ELSE "sending",
                 payload |-> agg.view, snap |-> Connected, todo |-> Connected,
                 failed |-> {}]
    /\ agg' = AggIdle
    /\ last' = Quiet
    /\ UNCHANGED <<clientVars, sideVars, sessionAuth, chan, received, tickNo>>

\* connect(channelId): channels connect in the order of their ids.
RelayConnect(c) ==
    /\ chan[c] = "fresh"
    /\ \A d \in Channels : d < c => chan[d] # "fresh"
    /\ chan' = [chan EXCEPT ![c] = "connected"]
    /\ last' = Quiet
    /\ UNCHANGED <<clientVars, sideVars, sessionAuth, received, bcast, agg, published, tickNo>>

\* disconnect(channelId)
RelayDisconnect(c) ==
    /\ chan[c] = "connected"
    /\ chan' = [chan EXCEPT ![c] = "closed"]
    /\ last' = Quiet
    /\ UNCHANGED <<clientVars, sideVars, sessionAuth, received, bcast, agg, published, tickNo>>

\* broadcast(AccountView): every channel is sent the same view.
PayloadFor(c, view) == view

\* Mutant: the page's 'update' handler is never run.
OnUpdate_Dropped(log, data) == log

\* socket.on('update', ...): the page logs the data and hands it to
\* handleRealTimeUpdate.
OnUpdate(log, data) == log \cup {data}

\* The broadcast sends to the next channel of its copy: the 'update'
\* handler of a connected channel's page runs; a send to a channel that
\* has closed fails, is logged, and the broadcast goes on.
RelaySend(c) ==
    /\ bcast.phase = "sending"
    /\ c \in bcast.todo
    /\ IF chan[c] = "connected"
       THEN /\ received' = [received EXCEPT
                              ![c] = OnUpdate(@, PayloadFor(c, bcast.payload))]
            /\ bcast' = [bcast EXCEPT
                           !.todo = @ \ {c},
                           !.phase = IF bcast.todo = {c} THEN "done" ELSE @]
       ELSE /\ UNCHANGED received
            /\ bcast' = [bcast EXCEPT
                           !.todo = @ \ {c},
                           !.failed = @ \cup {c},
                           !.phase = IF bcast.todo = {c} THEN "done" ELSE @]
    /\ last' = Quiet
    /\ UNCHANGED <<clientVars, sideVars, sessionAuth, chan, agg, published, tickNo>>

\* The server with its channels; the page of the model does not move.
RelayInit ==
    /\ Init
    /\ variant = "part_000"
    /\ refreshDefined

RelayNext ==
    \/ AggTick
    \/ \E ok \in BOOLEAN : AggSubCall(ok)
    \/ AggPublish
    \/ \E c \in Channels : RelayConnect(c)
    \/ \E c \in Channels : RelayDisconnect(c)
    \/ \E c \in Channels : RelaySend(c)

RelaySpec == RelayInit /\ [][RelayNext]_vars

\* ---- the server's HTTP Facade order route and Broker API Client ----
\* Protected calls the server serves, one at a time in this model.
MaxCalls == 2

\* Numbers of an OrderRequest are counted in halves, so that 2 stands for
\* 1 and 3 for 1.5: a quantity may be sent that is not an integer.
Quantities == {-2, 0, 1, 2, 4}
Prices == {-2, 0, 1, 2}
Digits == {"0", "1", "2", "3", "4", "5", "6", "7", "8", "9"}
SymbolCodes ==
    {<<"0", "0", "5", "9", "3", "0">>,
     <<"0", "0", "5", "9", "3">>,
     <<"0", "0", "5", "9", "3", "0", "0">>,
     <<"0", "0", "5", "9", "3", "A">>,
     <<>>}

OrderRequests ==
    [kind : {"order"}, symbol_code : SymbolCodes, side : {"buy", "sell"},
     quantity : Quantities, price : Prices]

\* A read through the client (getAccount, getQuote, ...): nothing to
\* validate.
ReadRequests == {[kind |-> "read"]}

IsInteger(x) == x % 2 = 0

\* symbol_code is a six-digit numeric string
ValidSymbol(code) == Len(code) = 6 /\ \A i \in 1..Len(code) : code[i] \in Digits

\* Mutant: the quantity is not looked at.
ValidOrder_AnyQuantity(req) == ValidSymbol(req.symbol_code) /\ req.price > 0

\* The OrderRequest invariants: quantity a positive integer, price
\* positive, symbol_code six digits.
ValidOrder(req) ==
    /\ ValidSymbol(req.symbol_code)
    /\ req.quantity > 0
    /\ IsInteger(req.quantity)
    /\ req.price > 0

\* Mutant: a second refresh is allowed in one call.
MaxRefreshes_Two == 1 + 1

\* Refresh is attempted once per call and no more.
MaxRefreshes == 1

BrokerResponses == {"ok", "401", "upstream", "transport"}

\* Mutant: a transport error is answered by posting again.
AfterPost_RetryTransport(resp, refreshes) ==
    IF resp = "401" /\ refreshes < MaxRefreshes THEN "refresh"
    ELSE IF resp = "transport" THEN "post" ELSE "done"

\* What the client does with the broker's answer: a 401-equivalent is
\* answered by one refresh and a retry, everything else is final.
AfterPost(resp, refreshes) ==
    IF resp = "401" /\ refreshes < MaxRefreshes THEN "refresh" ELSE "done"

\* The taxonomy kind a final answer of the broker maps to.
ResultOf(resp) ==
    CASE resp = "ok" -> "success"
      [] resp = "401" -> "AuthError"
      [] resp = "upstream" -> "UpstreamError"
      [] OTHER -> "TransportError"

\* A route of the HTTP Facade takes a request: requireAuth, then for an
\* order the request-shape validation, then the Broker API Client is
\* called.  No network call is made in this step.
DeskRoute(req) ==
    /\ desk.phase \in {"idle", "done"}
    /\ callNo < MaxCalls
    /\ callNo' = callNo + 1
    /\ desk' =
         IF ~RequireAuth
         THEN [DeskIdle EXCEPT !.phase = "done", !.req = req,
                               !.result = "unauthenticated"]
         ELSE IF req.kind = "order" /\ ~ValidOrder(req)
         THEN [DeskIdle EXCEPT !.phase = "done", !.req = req,
                               !.trace = <<"validate">>,
                               !.result = "ValidationError"]
         ELSE [DeskIdle EXCEPT !.phase = "client", !.req = req,
                               !.trace = IF req.kind = "order"
                                         THEN <<"validate">> ELSE <<>>,
                               !.expired = token = "expired",
                               !.submits = 1]
    /\ UNCHANGED <<clientVars, sessionAuth, last, relayVars, timeVars, animVars, domVars, token>>

\* The client compares the token's expiry with the clock: an expired
\* token is refreshed before the request is forwarded.
DeskCheckToken ==
    /\ desk.phase = "client"
    /\ desk' = [desk EXCEPT !.phase = IF token = "expired" THEN "refresh" ELSE "post"]
    /\ UNCHANGED <<clientVars, sessionAuth, last, relayVars, timeVars, animVars, domVars, token, callNo>>

\* The OAuth token endpoint is asked for a new token.
DeskRefresh(ok) ==
    /\ desk.phase = "refresh"
    /\ desk' = [desk EXCEPT !.refreshes = @ + 1,
                            !.trace = Append(@, IF ok THEN "refresh:ok" ELSE "refresh:failed"),
                            !.phase = IF ok THEN "post" ELSE "done",
                            !.result = IF ok THEN @ ELSE "AuthError"]
    /\ token' = IF ok THEN "valid" ELSE token
    /\ UNCHANGED <<clientVars, sessionAuth, last, relayVars, timeVars, animVars, domVars, callNo>>

\* One HTTP round trip to the broker, and its answer.
DeskPost(resp) ==
    /\ desk.phase = "post"
    /\ desk' = [desk EXCEPT !.posts = @ + 1,
                            !.trace = Append(@, "post:" \o resp),
                            !.phase = AfterPost(resp, desk.refreshes),
                            !.result = IF AfterPost(resp, desk.refreshes) = "done"
                                       THEN ResultOf(resp) ELSE @]
    /\ UNCHANGED <<clientVars, sessionAuth, last, relayVars, timeVars, animVars, domVars, token, callNo>>

\* Time passes and the cached token's expiry is reached.
TokenExpires ==
    /\ token = "valid"
    /\ desk.phase \in {"idle", "done"}
    /\ token' = "expired"
    /\ UNCHANGED <<clientVars, sessionAuth, last, relayVars, timeVars, animVars, domVars, desk, callNo>>

DeskInit ==
    /\ Init
    /\ variant = "part_000"
    /\ refreshDefined

DeskNext ==
    \/ \E req \in OrderRequests \cup ReadRequests : DeskRoute(req)
    \/ DeskCheckToken
    \/ \E ok \in BOOLEAN : DeskRefresh(ok)
    \/ \E resp \in BrokerResponses : DeskPost(resp)
    \/ TokenExpires

DeskSpec == DeskInit /\ [][DeskNext]_vars

\* ---- the page against the clock ----
\* The clock's resolution.
ClockStepMs == ReadmeIntervalMs \div 3

\* How long the clock is followed, in steps.
MaxClockSteps == 13

\* Time passes; an armed interval of a loaded page is not passed over:
\* it fires when it is due.
ClockAdvance ==
    /\ now < MaxClockSteps * ClockStepMs
    /\ (Alive /\ refreshInterval = "armed") => now + ClockStepMs <= due
    /\ now' = now + ClockStepMs
    /\ last' = Quiet
    /\ UNCHANGED <<clientVars, sessionAuth, relayVars, deskVars, animVars, domVars, due>>

\* The interval fires when it is due, and is due again one period later.
IntervalFires ==
    /\ now = due
    /\ IntervalCallback
    /\ due' = due + RefreshIntervalMs
    /\ UNCHANGED <<deskVars, animVars, domVars, now>>

TimerNext ==
    \/ ClockAdvance
    \/ IntervalFires
    \/ \E r \in BagToSet(inflight) : ServeStatus(r)
    \/ \E r \in BagToSet(inflight), net \in {"ok", "neterr", "parseerr"} :
          HandleCheckAuthStatus(r, net)
    \/ SocketConnect
    \/ SocketDisconnect
    \/ Unload

TimerSpec == Init /\ [][TimerNext]_vars

\* ---- the login progress modal and its animation (part_000) ----
\* Login progress modals shown on one page.
MaxDialogs == 2

\* Mutant: the last step fills the bar.
Steps_Full == <<15, 25, 35, 50, 70, 85, 100>>

\* const steps = [{ progress: 15, ... }, ..., { progress: 95, ... }]
Steps == <<15, 25, 35, 50, 70, 85, 95>>

\* let progress = 0; let currentStep = 0; const interval = setInterval(...)
NewAnimation == [currentStep |-> 0, progress |-> 0, active |-> TRUE]

\* The animation whose progressBar is the bar of the modal now in the
\* document: the one started last, while that modal has not been removed.
\* The bars of earlier animations belong to elements no longer in the
\* document.
OwnsBar(i) == i = Len(anims) /\ modal # "none"

\* login() up to its first await, with showLoginProgressModal(): the new
\* element's bar is at 0% and startLoginProgressAnimation() sets its
\* interval.
AnimLogin ==
    /\ Len(anims) < MaxDialogs
    /\ LoginClicked
    /\ anims' = Append(anims, NewAnimation)
    /\ bar' = 0
    /\ UNCHANGED <<deskVars, timeVars, domVars>>

\* updateLoginProgress(message, 'success'): progressBar.style.width =
\* '100%', when the modal's elements are in the document.
UpdateLoginProgressBar(m, width) == IF m = "none" THEN width ELSE 100

\* The continuation of login() after its awaits.
AnimHandleLogin(r, net) ==
    /\ LoginContinues(r, net)
    /\ bar' = IF net = "ok" /\ r.data = "success"
              THEN UpdateLoginProgressBar(modal, bar) ELSE bar
    /\ UNCHANGED <<deskVars, timeVars, domVars, anims>>

\* The 2 s timeout of a successful login: hideLoginProgressModal().
AnimLoginTimerFires(t) ==
    /\ LoginTimerRuns(t)
    /\ UNCHANGED sideVars

\* 'hidden.bs.modal': modal.remove().
AnimModalHidden ==
    /\ ModalRemoved
    /\ UNCHANGED sideVars

\* The interval callback of animation i: the next step is written to the
\* animation's progressBar, or, the steps being done, the interval is
\* cleared.
AnimationTick(i) ==
    /\ Alive
    /\ i \in DOMAIN anims
    /\ anims[i].active
    /\ IF anims[i].currentStep < Len(Steps)
       THEN /\ anims' = [anims EXCEPT ![i].progress = Steps[anims[i].currentStep + 1],
                                      ![i].currentStep = @ + 1]
            /\ bar' = IF OwnsBar(i) THEN Steps[anims[i].currentStep + 1] ELSE bar
       ELSE /\ anims' = [anims EXCEPT ![i].active = FALSE]
            /\ UNCHANGED bar
    /\ last' = Quiet
    /\ UNCHANGED <<clientVars, sessionAuth, relayVars, deskVars, timeVars, domVars>>

\* The part_000 page once the two requests of initializeApp() have been
\* answered, the Session being unauthenticated: checkAuthStatus has run
\* updateAuthUI(false).
AnimInit ==
    /\ variant = "part_000"
    /\ refreshDefined = TRUE
    /\ page = "loaded"
    /\ isAuthenticated = FALSE
    /\ authBtn = UpdateAuthUI(FALSE).authBtn
    /\ connectionStatus = UpdateAuthUI(FALSE).connectionStatus
    /\ socketConnected = FALSE
    /\ refreshInterval = "armed"
    /\ spinner = FALSE
    /\ modal = "none"
    /\ inflight = EmptyBag
    /\ timers = EmptyBag
    /\ sessionAuth = FALSE
    /\ last = Quiet
    /\ RelayIdle
    /\ SideIdle

AnimNext ==
    \/ AnimLogin
    \/ \E r \in BagToSet(inflight), ok \in BOOLEAN : ServeLogin(r, ok)
    \/ \E r \in BagToSet(inflight), net \in {"ok", "neterr", "parseerr"} :
          AnimHandleLogin(r, net)
    \/ \E t \in BagToSet(timers) : AnimLoginTimerFires(t)
    \/ AnimModalHidden
    \/ \E i \in 1..MaxDialogs : AnimationTick(i)

AnimSpec == AnimInit /\ [][AnimNext]_vars

\* ---- the login progress modal in the document (part_000) ----
\* showLoginProgressModal(): getElementById('loginProgressModal') and, if
\* there is one, existingModal.remove(); then insertAdjacentHTML adds one.
InsertModal(n) == (IF n > 0 THEN n - 1 ELSE n) + 1

\* login() up to its first await: modal.show() starts the show transition
\* of the element just inserted.
ModalLogin ==
    /\ LoginStarts("showing")
    /\ elements' = InsertModal(elements)
    /\ UNCHANGED <<deskVars, timeVars, animVars>>

\* 'shown.bs.modal': the show transition of the modal is over.
ModalShown ==
    /\ Alive
    /\ modal \in {"showing", "showing_success"}
    /\ modal' = IF modal = "showing" THEN "shown" ELSE "success"
    /\ last' = Quiet
    /\ UNCHANGED <<variant, refreshDefined, page, isAuthenticated, authBtn,
                   connectionStatus, socketConnected, refreshInterval, spinner,
                   inflight, timers, sessionAuth, relayVars, sideVars>>

\* The 2 s timeout of a successful login: hideLoginProgressModal().  The
\* show transition that was running when the success was written is over
\* by then.
ModalLoginTimerFires(t) ==
    /\ modal # "showing_success"
    /\ LoginTimerFires(t)

\* 'hidden.bs.modal': modal.remove() takes the hidden element out of the
\* document.
ModalElementRemoved ==
    /\ ModalRemoved
    /\ elements' = elements - 1
    /\ UNCHANGED <<deskVars, timeVars, animVars>>

ModalNext ==
    \/ ModalLogin
    \/ \E r \in BagToSet(inflight), ok \in BOOLEAN : ServeLogin(r, ok)
    \/ \E r \in BagToSet(inflight), net \in {"ok", "neterr", "parseerr"} :
          HandleLogin(r, net)
    \/ ModalShown
    \/ \E t \in BagToSet(timers) : ModalLoginTimerFires(t)
    \/ ModalElementRemoved

ModalSpec == AnimInit /\ [][ModalNext]_vars

\* ======================= claims =======================

IsForced == last.op = "apiRequest:returned" /\ last.data = "forced"

\* C1: when apiRequest returns a response with success=false and
\* authenticated=false, the forced logout has been done by the time the
\* data is handed to the caller: isAuthenticated is false and the auth
\* control is back to 'login'.
C1_ForcedLogout == IsForced => (isAuthenticated = FALSE /\ authBtn = "login")

\* C1 witness: such a response arrived on a page that was authenticated.
C1_Witness == IsForced /\ last.was /\ ~isAuthenticated /\ authBtn = "login"

\* C2: once the server has run logout the Session is unauthenticated,
\* whatever it was before; a status query answers what the Session holds,
\* so it reports authenticated:false; and when the client processes the
\* success of a logout, isAuthenticated is false and the control shows
\* 'login', whether or not it was already logged out.
C2_LogoutIdempotent ==
    /\ last.op = "serve:logout" => ~sessionAuth
    /\ last.op = "serve:status" => (last.data = "auth_true" <=> sessionAuth)
    /\ last.op = "logout:success" => (isAuthenticated = FALSE /\ authBtn = "login")

\* C2 witness: the success of a second logout is processed: the client
\* was already logged out, the Session already cleared.
C2_Witness ==
    /\ last.op = "logout:success"
    /\ ~last.was
    /\ ~isAuthenticated
    /\ ~sessionAuth

LoginFailed == last.op \in {"login:failure", "login:error"}

\* C3: a login attempt that fails (failure response, network or parse
\* error) does not set isAuthenticated (it is what it was before the
\* response was processed), shows a 'danger' alert with the reason, and
\* the server's Session is unauthenticated after a failed login.
C3_LoginFailure ==
    /\ LoginFailed => (isAuthenticated = last.was /\ last.alert = "danger")
    /\ (last.op = "serve:login" /\ last.data = "failure") => ~sessionAuth

\* C3 witness: a failure response has been processed on an
\* unauthenticated page.
C3_Witness ==
    /\ last.op = "login:failure"
    /\ ~isAuthenticated
    /\ last.alert = "danger"

\* C4: when login() processes a success response, isAuthenticated is true
\* and the auth control shows 'logout' at once, the refresh is not yet
\* done but its timeout is pending; when that timeout fires
\* refreshDashboard is called (where the page defines it); and after a
\* successful login the Session is authenticated, which a status query
\* reports.
C4_LoginSuccess ==
    /\ last.op = "login:success" =>
          /\ isAuthenticated = TRUE
          /\ authBtn = "logout"
          /\ ~last.refresh
          /\ BagIn(LoginTimer, timers)
    /\ last.op = "login:timer" => (last.refresh <=> refreshDefined)
    /\ (last.op = "serve:login" /\ last.data = "success") => sessionAuth
    /\ (last.op = "serve:status" /\ sessionAuth) => last.data = "auth_true"

\* C4 witness: the timeout of a successful login has fired and called
\* refreshDashboard.
C4_Witness == last.op = "login:timer" /\ last.refresh /\ isAuthenticated

\* C5 (as claimed): a tick refreshes only while the channel is connected
\* and the session is authenticated.
C5_Original ==
    (last.op = "tick" /\ last.refresh) => (socketConnected /\ isAuthenticated)

\* C5 (amended): a tick refreshes exactly when isAuthenticated is true (on
\* a page that defines refreshDashboard); the socket is not consulted.
C5_TickGate ==
    last.op = "tick" => (last.refresh <=> (isAuthenticated /\ refreshDefined))

\* C5 witness: a tick refreshed while the socket was disconnected.
C5_Witness == last.op = "tick" /\ last.refresh /\ ~socketConnected

GuardedOps ==
    {"login:success", "login:failure", "login:error",
     "logout:success", "logout:failure", "logout:error",
     "checkAuthStatus", "checkServerStatus", "searchStockInfo"}

\* C6: no exception escapes login, logout, checkAuthStatus,
\* checkServerStatus or searchStockInfo, whatever the response or error.
C6_NoEscape == last.op \in GuardedOps => ~last.escaped

\* C6 witness: a network or parse error of login was caught and alerted.
C6_Witness ==
    /\ last.op = "login:error"
    /\ last.data \in {"neterr", "parseerr"}
    /\ ~last.escaped
    /\ last.alert = "danger"

\* C7 (as claimed): once written, the connection-status indicator shows
\* 'connected' exactly when the socket is connected and 'disconnected'
\* exactly when it is not.
C7_Indicator ==
    (Alive /\ connectionStatus # "template") =>
        /\ connectionStatus = "connected" <=> socketConnected
        /\ connectionStatus = "disconnected" <=> ~socketConnected

\* C8: serving the request of a status query leaves the Session as it was
\* and calls no Broker API.
C8_StatusPureRead ==
    last.caller = "checkAuthStatus" => (sessionAuth = last.was /\ ~last.broker)

\* C8 witness: a status query was served while the Session was
\* authenticated, and reported it.
C8_Witness ==
    /\ last.caller = "checkAuthStatus"
    /\ last.op = "serve:status"
    /\ last.data = "auth_true"
    /\ sessionAuth

BroadcastDone == bcast.phase = "done"

C10_NoPartialView ==
    /\ \A v \in published : Complete(v)
    /\ bcast.payload \in published \cup {NoView}
    /\ last.op = "agg:failed" =>
          \A v \in published \cup {bcast.payload} :
             \A i \in 1..Len(Parts) : v[Parts[i]] # tickNo

\* C10 witness: a refresh failed after its first sub-calls had succeeded,
\* on a server that had published an earlier view.
C10_Witness ==
    /\ last.op = "agg:failed"
    /\ last.data = "partway"
    /\ published # {}

\* An OrderRequest that violates an invariant, as the claim lists them.
ViolatesInvariant(req) ==
    \/ req.quantity <= 0
    \/ req.price <= 0
    \/ Len(req.symbol_code) # 6
    \/ \E i \in 1..Len(req.symbol_code) : req.symbol_code[i] \notin Digits

OrderTaken == desk.phase # "idle" /\ desk.req.kind = "order"

\* C11: an order whose OrderRequest violates an invariant (non-positive
\* quantity, non-positive price, malformed symbol code) causes no network
\* call (no round trip to the broker, no token refresh, the client is not
\* called) and, having passed requireAuth, is answered with a
\* ValidationError.
C11_ValidationError ==
    (OrderTaken /\ ViolatesInvariant(desk.req)) =>
        /\ desk.posts = 0
        /\ desk.refreshes = 0
        /\ desk.submits = 0
        /\ desk.phase = "done"
        /\ sessionAuth => desk.result = "ValidationError"

\* C11 witness: an order of quantity 0 under an authenticated Session was
\* answered with a ValidationError and nothing was sent.
C11_Witness ==
    /\ OrderTaken
    /\ desk.req.quantity = 0
    /\ desk.req.price > 0
    /\ sessionAuth
    /\ desk.result = "ValidationError"
    /\ desk.posts = 0

\* A valid OrderRequest: positive integer quantity, positive price,
\* six-digit symbol code.
WellFormed(req) ==
    /\ ~ViolatesInvariant(req)
    /\ req.quantity % 2 = 0

\* C12: a valid order that has passed requireAuth is handed to the Broker
\* API Client exactly once; the client makes one round trip to the broker
\* unless a token refresh took place, and never more than two.
C12_SubmittedOnce ==
    (OrderTaken /\ WellFormed(desk.req) /\ sessionAuth) =>
        /\ desk.submits = 1
        /\ desk.posts <= 2
        /\ desk.posts = 2 => desk.refreshes = 1
        /\ (desk.phase = "done" /\ desk.refreshes = 0) => desk.posts = 1

\* C12 witness: a valid order was submitted in one round trip, without a
\* refresh, and accepted.
C12_Witness ==
    /\ OrderTaken
    /\ WellFormed(desk.req)
    /\ desk.phase = "done"
    /\ desk.result = "success"
    /\ desk.posts = 1
    /\ desk.refreshes = 0

\* C13: no call refreshes the token more than once or makes more than two
\* round trips; a call that finds the token expired refreshes it exactly
\* once; and when that refresh and the round trip after it succeed, the
\* caller gets a success and has seen no error.
C13_SingleRefresh ==
    /\ desk.refreshes <= 1
    /\ desk.posts <= 2
    /\ (desk.phase = "done" /\ desk.expired) => desk.refreshes = 1
    /\ (desk.phase = "done" /\ desk.expired /\ desk.posts = 1
        /\ desk.trace[Len(desk.trace)] = "post:ok") => desk.result = "success"

\* C13 witness: the token expired after the first call; the second call
\* refreshed it once, made one round trip and succeeded.
C13_Witness ==
    /\ callNo = 2
    /\ desk.phase = "done"
    /\ desk.expired
    /\ desk.refreshes = 1
    /\ desk.posts = 1
    /\ desk.result = "success"

C15_UnloadCleans ==
    ~Alive =>
        /\ refreshInterval = "cleared"
        /\ ~socketConnected
        /\ last.op # "tick"
        /\ ~last.refresh

\* C15 witness: a page whose socket was connected has been unloaded, and
\* the clock has passed the time at which its interval was due.
C15_Witness ==
    /\ ~Alive
    /\ refreshInterval = "cleared"
    /\ connectionStatus = "disconnected"
    /\ ~socketConnected
    /\ now > due

\* What every animation looks like at any time: its step count is between
\* 0 and 7, its progress is 0 before the first step and afterwards one of
\* 15..95, never above 95, and its interval is cleared only after the
\* seventh step, at 95.
AnimationInRange ==
    \A i \in DOMAIN anims :
        /\ anims[i].currentStep \in 0..7
        /\ anims[i].progress \in {0, 15, 25, 35, 50, 70, 85, 95}
        /\ anims[i].progress <= 95
        /\ anims[i].currentStep = 0 <=> anims[i].progress = 0
        /\ ~anims[i].active => (anims[i].currentStep = 7 /\ anims[i].progress = 95)

\* What one step does to an animation: a running animation either takes
\* exactly one step, to a strictly higher progress, or, its seven steps
\* done, clears its interval; a cleared one never changes again.
AnimationAdvances ==
    \A i \in DOMAIN anims :
        anims'[i] # anims[i] =>
            /\ anims[i].active
            /\ \/ /\ anims'[i].active
                  /\ anims'[i].currentStep = anims[i].currentStep + 1
                  /\ anims'[i].progress > anims[i].progress
               \/ /\ ~anims'[i].active
                  /\ anims[i].currentStep = 7
                  /\ anims'[i].currentStep = 7
                  /\ anims'[i].progress = anims[i].progress

\* C16: the login progress animation advances one step per tick in
\* strictly increasing order, never sets the progress above 95%, and
\* clears its own interval on the tick after the seventh step; so it
\* changes at most eight times and then rests at 95%.
C16_Animation == []AnimationInRange /\ [][AnimationAdvances]_vars

\* C16 witness: an animation has done its seven steps and cleared its
\* interval while the login is still unanswered: the modal is open and
\* its bar waits at 95%.
C16_Witness ==
    /\ anims # <<>>
    /\ ~anims[Len(anims)].active
    /\ modal = "shown"
    /\ bar = 95
    /\ \E r \in BagToSet(inflight) : r.op = "login"

\* C20 (as claimed): the bar of an open modal that shows the success of a
\* login is at 100%.
C20_SuccessStays == modal = "success" => bar = 100

\* C17 (as claimed): whenever a step calls refreshDashboard (from
\* checkAuthStatus, from the timeout of a successful login, or from the
\* periodic timer), isAuthenticated is true.
C17_RefreshAuthenticated == last.refresh => isAuthenticated

\* C18 (as claimed): when the response to an auth-status request has been
\* processed and no request is in flight any more, the client's
\* isAuthenticated equals the server's Session.authenticated: the
\* response was not a late one that overwrote a later result.
C18_AuthAgrees ==
    (/\ Alive
     /\ inflight = EmptyBag
     /\ last.op = "checkAuthStatus"
     /\ last.data \in {"auth_true", "auth_false"}) =>
        isAuthenticated = sessionAuth

AuthRequestInFlight ==
    \E r \in BagToSet(inflight) : r.op \in {"login", "logout"}

\* C19 (as claimed): while a login or logout request of the page is in
\* flight, the loading spinner is visible.
C19_SpinnerShown == (Alive /\ AuthRequestInFlight) => spinner

\* Something is still to come that dismisses the login progress modal: the
\* response to a login, the 2 s timeout of a successful one, or the end of
\* a hide transition.
DismissalPending ==
    \/ \E r \in BagToSet(inflight) : r.op = "login"
    \/ BagIn("loginDone", timers)
    \/ modal = "hiding"

\* At most one #loginProgressModal is in the document.
OneModal == elements <= 1

\* C21 (as claimed): at no time is there more than one login progress
\* modal in the page, also when login attempts overlap, and every login
\* attempt that opened the modal leads to the modal being dismissed,
\* whether it succeeds, is rejected or throws: once every attempt is
\* over and nothing that dismisses the modal is still to come, no modal
\* is left.
C21_ModalDismissed ==
    /\ OneModal
    /\ (Alive /\ ~DismissalPending) => modal = "none"

====
